---------------------------- MODULE Spec2Model ----------------------------
(***************************************************************************)
(* A model of refery, a functional-test runner.                            *)
(*                                                                         *)
(*   refery/diff.py        ValueDiff, TextualDiff, TextualDiff.__rich__,   *)
(*                         OutputMode.compare                              *)
(*   refery/test_result.py TestStatus, Verbosity, TestResult               *)
(*   refery/test_suite.py  TestCase.__post_init__, TestCase.run,           *)
(*                         TestCase.__run_assertions, TestSuite.run        *)
(*   main.py               main                                            *)
(*                                                                         *)
(* Texts are sequences of one-character strings, so that conversions on    *)
(* them (escaping) are computed and not assumed.  An optional value is     *)
(* None or Some(v).                                                        *)
(***************************************************************************)
EXTENDS Integers, Sequences, FiniteSets, TLC

VARIABLES
    cmp,        \* one call of OutputMode.compare: its arguments and its return value;
                \* or one TextualDiff and what it is rendered as
    decl,       \* the fields the TestCase was declared with (never changed)
    tc,         \* the TestCase object: its fields
    pc,         \* where the TestCase is: declared, constructed, inside run(), returned, raised
    verbosity,  \* the verbosity run() was called with (None before the call)
    result,     \* what TestCase.run returned (None before it returns)
    proc,       \* the tested child process and its pipes
    refproc,    \* the reference process of the constructor
    trace,      \* what the TestCase did so far: processes spawned, comparisons made
    suite,      \* the TestSuite object: its fields
    loop,       \* TestSuite.run: its position, the case it is at, what it printed and recorded
    main        \* main(): its position, the suites, the suite it is at, its exit code

vars == <<cmp, decl, tc, pc, verbosity, result, proc, refproc, trace, suite, loop, main>>
caseVars == <<decl, tc, pc, verbosity, result, proc, refproc, trace>>
suiteVars == <<suite, loop>>

---------------------------------------------------------------------------
(* Bounds and input sets *)

\* Longest text given to OutputMode.compare.
MaxLen == 2

\* The characters of the texts: a letter, a line break, and two of the
\* characters html.escape rewrites.
Chars == {"a", "\n", "<", "&"}

TextsUpTo(n) == UNION {[1..k -> Chars] : k \in 0..n}

None == [some |-> FALSE]
Some(v) == [some |-> TRUE, val |-> v]
Opt(S) == {None} \cup {Some(v) : v \in S}

---------------------------------------------------------------------------
(* refery/diff.py *)

\* html.escape(s, quote=True), character by character.  refery/diff.py takes
\* `escape` from rich.console, and rich/console.py has `from html import
\* escape`: the name bound there is the standard library's html.escape.
EscapeChar(c) ==
    CASE c = "&"  -> <<"&", "a", "m", "p", ";">>
      [] c = "<"  -> <<"&", "l", "t", ";">>
      [] c = ">"  -> <<"&", "g", "t", ";">>
      [] c = "\"" -> <<"&", "q", "u", "o", "t", ";">>
      [] c = "'"  -> <<"&", "#", "x", "2", "7", ";">>
      [] OTHER    -> <<c>>

RECURSIVE escape(_)
escape(s) == IF s = <<>> THEN <<>> ELSE EscapeChar(Head(s)) \o escape(Tail(s))

NoDiff == [kind |-> "None"]

\* ValueDiff(name, expected, actual) after __post_init__.  The names are
\* the three literals of __run_assertions ("Standard outputs", "Standard
\* errors", "Return codes"), kept as strings: they hold none of the
\* characters that escape rewrites.
ValueDiff(name, expected, actual) ==
    [kind |-> "ValueDiff", name |-> name,
     expected |-> expected, actual |-> actual]

\* TextualDiff(name, expected, actual) after __post_init__, which escapes
\* the name and both texts.
TextualDiff(name, expected, actual) ==
    [kind |-> "TextualDiff", name |-> name,
     expected |-> escape(expected), actual |-> escape(actual)]

STRICT == "OutputMode.STRICT"
EXISTS == "OutputMode.EXISTS"
OutputMode == {STRICT, EXISTS}

\* A plausible slip: EXISTS reports only output that was not expected.
compare_OneSided(self, name, expected, actual) ==
    IF ~expected.some THEN NoDiff
    ELSE IF self = EXISTS THEN
        IF expected.val = <<>> /\ actual # <<>>
            THEN ValueDiff(name, "nothing", "something")
            ELSE NoDiff
    ELSE IF expected.val = actual THEN NoDiff
    ELSE TextualDiff(name, expected.val, actual)

\* A plausible slip: an unset expectation is taken for the empty text
\* (`expected or ""`) and compared like a declared one.
compare_NoneAsEmpty(self, name, expected, actual) ==
    LET e == IF expected.some THEN expected.val ELSE <<>>
    IN IF self = EXISTS THEN
           IF e = <<>> /\ actual # <<>>
               THEN ValueDiff(name, "nothing", "something")
           ELSE IF e # <<>> /\ actual = <<>>
               THEN ValueDiff(name, "something", "nothing")
           ELSE NoDiff
       ELSE IF e = actual THEN NoDiff
       ELSE TextualDiff(name, e, actual)

\* OutputMode.compare(self, name, expected, actual); expected may be None.
compare(self, name, expected, actual) ==
    IF ~expected.some THEN NoDiff
    ELSE IF self = EXISTS THEN
        IF expected.val = <<>> /\ actual # <<>>
            THEN ValueDiff(name, "nothing", "something")
        ELSE IF expected.val # <<>> /\ actual = <<>>
            THEN ValueDiff(name, "something", "nothing")
        ELSE NoDiff
    ELSE IF self = STRICT THEN
        IF expected.val = actual THEN NoDiff
        ELSE TextualDiff(name, expected.val, actual)
    ELSE NoDiff

---------------------------------------------------------------------------
(* refery/test_result.py *)

SILENT  == "Verbosity.SILENT"
NORMAL  == "Verbosity.NORMAL"
VERBOSE == "Verbosity.VERBOSE"
Verbosity == {SILENT, NORMAL, VERBOSE}

SUCCESS == "TestStatus.SUCCESS"
FAILURE == "TestStatus.FAILURE"
ERROR   == "TestStatus.ERROR"
SKIPPED == "TestStatus.SKIPPED"
TestStatus == {SUCCESS, FAILURE, ERROR, SKIPPED}

\* TestResult(name, status, outputs, verbosity, command); the dataclass
\* defaults are outputs = [], verbosity = NORMAL, command = None.
TestResult(name, status, outputs, verb, command) ==
    [name |-> name, status |-> status, outputs |-> outputs,
     verbosity |-> verb, command |-> command]

\* TestStatus.icon and TestStatus.style
icon(status) ==
    CASE status = SUCCESS -> "check mark"
      [] status = FAILURE -> "x-mark"
      [] status = ERROR   -> "double bang"
      [] status = SKIPPED -> "slashed circle"

style(status) ==
    CASE status = SUCCESS -> "green"
      [] status = FAILURE -> "red"
      [] status = ERROR   -> "bold red"
      [] status = SKIPPED -> "dim"

\* TestResult.grouped_output: the command, when there is one and the
\* verbosity is VERBOSE, then every output.
grouped_output(self) ==
    (IF self.command.some /\ self.verbosity = VERBOSE
     THEN <<[kind |-> "command", command |-> self.command.val]>> ELSE <<>>)
    \o self.outputs

\* TestResult.__rich__: what console.print(result) renders.  A result
\* without outputs renders as its title; one with outputs as a panel that
\* holds grouped_output under the title.  The verbosity is read by
\* grouped_output only.
rich(self) ==
    LET title == [style |-> style(self.status), icon |-> icon(self.status),
                  name |-> self.name]
    IN IF self.outputs = <<>>
       THEN [kind |-> "title", title |-> title, body |-> <<>>]
       ELSE IF grouped_output(self) # <<>>
       THEN [kind |-> "panel", title |-> title, body |-> grouped_output(self)]
       ELSE [kind |-> "nothing", title |-> title, body |-> <<>>]

---------------------------------------------------------------------------
(* The environment of a TestCase: the file system and the processes *)

\* Longest timeout a case declares, in seconds.
MaxTimeout == 2

BinaryPaths == {"bin", "bin_missing", "bin_noexec"}
RefPaths    == {"ref", "ref_missing", "ref_noexec"}
ArgLists    == {<<"hi">>}
StdinTexts  == {<<"a">>}
\* Expected texts a case declares, and the texts a reference binary writes.
ExpTexts    == {<<>>, <<"a">>}
\* Texts the tested binary writes.
OutTexts    == {<<>>, <<"a">>, <<"<">>}
ExitCodes   == {0, 1}

\* What subprocess.Popen([path, *args], ...) does: it raises
\* FileNotFoundError for a path that does not exist, PermissionError for a
\* file that is not executable, and starts the process otherwise.
Popen(path) ==
    CASE path \in {"bin_missing", "ref_missing"} -> "FileNotFoundError"
      [] path \in {"bin_noexec", "ref_noexec"}   -> "PermissionError"
      [] OTHER                                   -> "started"

\* A child process as the parent sees it: whether it runs, the returncode
\* the Popen object holds, the parent's ends of its pipes, and what
\* communicate() returned.
NoOutput == [kind |-> "none"]
NoProcess ==
    [state |-> "none", returncode |-> None, stdin |-> "none",
     stdout |-> "none", stderr |-> "none", timedout |-> FALSE,
     output |-> NoOutput]
\* The reference process: besides the returncode the Popen object holds,
\* what the process wrote and the status it exited with.
NoRefProcess ==
    [state |-> "none", returncode |-> None, output |-> NoOutput,
     exitstatus |-> None]

PopenEvent(path, args, stdin) ==
    [ev |-> "Popen", path |-> path, args |-> args, stdin |-> stdin]
CompareEvent(name) == [ev |-> "compare", name |-> name]
RaiseEvent(exc) == [ev |-> "raise", exc |-> exc]

---------------------------------------------------------------------------
(* refery/test_suite.py: TestCase *)

\* A mode is an OutputMode member, or its name as the input document gives it.
ModeNames == {"strict", "exists"}
ModeInputs == OutputMode \cup ModeNames
\* isinstance(m, str)
IsStr(m) == m \in ModeNames
\* OutputMode[m.upper()]
ParseMode(m) == IF m = "strict" THEN STRICT ELSE EXISTS

\* The fields a TestCase is declared with (dataclass fields, before
\* __post_init__).
DeclaredCases ==
    [name : {"t"}, binary : BinaryPaths, args : ArgLists, ref : Opt(RefPaths),
     stdin : Opt(StdinTexts), stdout : Opt(ExpTexts), stderr : Opt(ExpTexts),
     exit_code : Opt(ExitCodes), stdout_mode : ModeInputs,
     stderr_mode : ModeInputs, skipped : BOOLEAN,
     timeout : Opt(1..MaxTimeout), init_error : {None}]

NoSuchFile(path) == [kind |-> "message", text |-> "No such file or directory", what |-> path]
TimeoutExceeded(t) == [kind |-> "message", text |-> "timeout exceeded", what |-> t]

\* __post_init__, the two isinstance tests on the modes: both assign
\* stderr_mode, the first from stdout_mode.
ConvertModes(self) ==
    LET m1 == IF IsStr(self.stdout_mode) THEN ParseMode(self.stdout_mode)
              ELSE self.stderr_mode
        m2 == IF IsStr(m1) THEN ParseMode(m1) ELSE m1
    IN [self EXCEPT !.stderr_mode = m2]

\* A plausible slip: the reference run overwrites the declared expectations.
ResolveFromRef_RefWins(self, out, err, code) ==
    [self EXCEPT !.stdout = Some(out), !.stderr = Some(err),
                 !.exit_code = IF self.stdin.some THEN Some(code) ELSE None]

\* __post_init__, the reference run once the reference process has started:
\* it wrote out and err and exits with code.  process.wait() is called only
\* when stdin is set, so process.returncode is None otherwise.
ResolveFromRef(self, out, err, code) ==
    LET returncode == IF self.stdin.some THEN Some(code) ELSE None
    IN [self EXCEPT
          !.stdout    = IF self.stdout.some THEN self.stdout ELSE Some(out),
          !.stderr    = IF self.stderr.some THEN self.stderr ELSE Some(err),
          !.exit_code = IF self.exit_code.some THEN self.exit_code ELSE returncode]

\* __get_command(verbosity)
get_command(self, verb) ==
    IF verb = VERBOSE THEN Some([prog |-> self.binary, args |-> self.args])
    ELSE None

\* __run_assertions(stdout, stderr, exit_code, verbosity): what it returns,
\* or the exception it raises.  self.stdout_mode.compare on a mode that is
\* still a str raises AttributeError.
run_assertions(self, out, err, code, verb) ==
    LET d1 == compare(self.stdout_mode, "Standard outputs", self.stdout, out)
        d2 == compare(self.stderr_mode, "Standard errors", self.stderr, err)
        d3 == IF self.exit_code.some /\ self.exit_code.val # code
              THEN ValueDiff("Return codes", self.exit_code.val, code)
              ELSE NoDiff
        diffs == SelectSeq(<<d1, d2, d3>>, LAMBDA d : d # NoDiff)
    IN IF IsStr(self.stdout_mode)
       THEN [raised |-> TRUE, exc |-> "AttributeError", events |-> <<>>]
       ELSE IF IsStr(self.stderr_mode)
       THEN [raised |-> TRUE, exc |-> "AttributeError",
             events |-> <<CompareEvent("Standard outputs")>>]
       ELSE [raised |-> FALSE,
             events |-> <<CompareEvent("Standard outputs"),
                          CompareEvent("Standard errors")>>
                        \o (IF self.exit_code.some
                            THEN <<CompareEvent("Return codes")>> ELSE <<>>),
             result |-> TestResult(self.name,
                                   IF diffs = <<>> THEN SUCCESS ELSE FAILURE,
                                   diffs, verb, get_command(self, verb))]

---------------------------------------------------------------------------
(* Idle values of the parts a specification does not use *)

CmpIdle == [pc |-> "idle"]
MainIdle == [pc |-> "idle"]
SuiteIdle ==
    /\ suite = [name |-> "idle"]
    /\ loop = [pc |-> "idle"]
CaseIdle ==
    /\ decl = [name |-> "idle"]
    /\ tc = [name |-> "idle"]
    /\ pc = "idle"
    /\ verbosity = None
    /\ result = None
    /\ proc = NoProcess
    /\ refproc = NoRefProcess
    /\ trace = <<>>

---------------------------------------------------------------------------
(* CompareSpec: OutputMode.compare on every mode, expectation and output *)

CompareNames == {"Standard outputs", "Standard errors"}

CompareInit ==
    /\ cmp \in {[pc |-> "call", mode |-> m, name |-> n, expected |-> e,
                 actual |-> a, ret |-> NoDiff] :
                    m \in OutputMode, n \in CompareNames,
                    e \in Opt(TextsUpTo(MaxLen)), a \in TextsUpTo(MaxLen)}
    /\ CaseIdle
    /\ SuiteIdle
    /\ main = MainIdle

Compare ==
    /\ cmp.pc = "call"
    /\ cmp' = [cmp EXCEPT !.pc = "ret",
                          !.ret = compare(cmp.mode, cmp.name, cmp.expected, cmp.actual)]
    /\ UNCHANGED caseVars
    /\ UNCHANGED suiteVars
    /\ UNCHANGED main

CompareNext == Compare

CompareSpec == CompareInit /\ [][CompareNext]_vars


---------------------------------------------------------------------------
(* Spec: one TestCase, from its declaration through __post_init__ to run() *)

Init ==
    /\ cmp = CmpIdle
    /\ decl \in DeclaredCases
    /\ tc = decl
    /\ pc = "declared"
    /\ verbosity = None
    /\ result = None
    /\ proc = NoProcess
    /\ refproc = NoRefProcess
    /\ trace = <<>>
    /\ SuiteIdle
    /\ main = MainIdle

RefStdin(self) == IF self.stdin.some THEN "PIPE" ELSE "None"

\* __post_init__ of a case that is skipped or has no ref: only the modes
\* are converted.
ConstructPlain ==
    /\ pc = "declared"
    /\ tc.skipped \/ ~tc.ref.some
    /\ tc' = ConvertModes(tc)
    /\ pc' = "constructed"
    /\ UNCHANGED <<cmp, main, suite, loop, decl, verbosity, result, proc, refproc, trace>>

\* A plausible slip: FileNotFoundError is caught and nothing is recorded.
ConstructRefFails_Unrecorded ==
    /\ pc = "declared"
    /\ ~tc.skipped /\ tc.ref.some
    /\ Popen(tc.ref.val) = "FileNotFoundError"
    /\ tc' = ConvertModes(tc)
    /\ pc' = "constructed"
    /\ trace' = Append(trace, PopenEvent(tc.ref.val, tc.args, RefStdin(tc)))
    /\ UNCHANGED <<cmp, main, suite, loop, decl, verbosity, result, proc, refproc>>

\* __post_init__ of a case with a ref whose Popen raises: FileNotFoundError
\* is caught and recorded in init_error, any other exception leaves the
\* constructor.
ConstructRefFails ==
    /\ pc = "declared"
    /\ ~tc.skipped /\ tc.ref.some
    /\ Popen(tc.ref.val) # "started"
    /\ IF Popen(tc.ref.val) = "FileNotFoundError"
       THEN /\ tc' = [ConvertModes(tc) EXCEPT
                        !.init_error = Some(NoSuchFile(tc.ref.val))]
            /\ pc' = "constructed"
            /\ trace' = Append(trace, PopenEvent(tc.ref.val, tc.args, RefStdin(tc)))
       ELSE /\ tc' = ConvertModes(tc)
            /\ pc' = "raised"
            /\ trace' = trace
                    \o <<PopenEvent(tc.ref.val, tc.args, RefStdin(tc)),
                         RaiseEvent(Popen(tc.ref.val))>>
    /\ UNCHANGED <<cmp, main, suite, loop, decl, verbosity, result, proc, refproc>>

\* A plausible slip: the reference run does not test `skipped`.
ConstructFromRef_EvenIfSkipped ==
    /\ pc = "declared"
    /\ tc.ref.some
    /\ Popen(tc.ref.val) = "started"
    /\ \E out \in ExpTexts, err \in ExpTexts, code \in ExitCodes :
          /\ tc' = ResolveFromRef(ConvertModes(tc), out, err, code)
          /\ refproc' = [state |-> IF tc.stdin.some THEN "reaped" ELSE "signalled",
                         returncode |-> IF tc.stdin.some THEN Some(code) ELSE None,
                         output |-> [kind |-> "text", out |-> out, err |-> err],
                         exitstatus |-> Some(code)]
    /\ pc' = "constructed"
    /\ trace' = Append(trace, PopenEvent(tc.ref.val, tc.args, RefStdin(tc)))
    /\ UNCHANGED <<cmp, main, suite, loop, decl, verbosity, result, proc>>

\* __post_init__ of a case with a ref that starts: the reference process
\* writes out and err and exits with code; the unset expectations are taken
\* from it and the process is sent SIGTERM.
ConstructFromRef ==
    /\ pc = "declared"
    /\ ~tc.skipped /\ tc.ref.some
    /\ Popen(tc.ref.val) = "started"
    /\ \E out \in ExpTexts, err \in ExpTexts, code \in ExitCodes :
          /\ tc' = ResolveFromRef(ConvertModes(tc), out, err, code)
          /\ refproc' = [state |-> IF tc.stdin.some THEN "reaped" ELSE "signalled",
                         returncode |-> IF tc.stdin.some THEN Some(code) ELSE None,
                         output |-> [kind |-> "text", out |-> out, err |-> err],
                         exitstatus |-> Some(code)]
    /\ pc' = "constructed"
    /\ trace' = Append(trace, PopenEvent(tc.ref.val, tc.args, RefStdin(tc)))
    /\ UNCHANGED <<cmp, main, suite, loop, decl, verbosity, result, proc>>

\* __post_init__ with stdin set waits for the reference process before it
\* reads the pipes, and with stdin unset reads one pipe to its end before
\* the other: a reference process that writes more than a pipe holds
\* never exits, and the constructor never returns.  (RefSpec has the
\* steps.)
ConstructBlocks ==
    /\ pc = "declared"
    /\ ~tc.skipped /\ tc.ref.some
    /\ tc.stdin.some \/ ~tc.stdout.some \/ ~tc.stderr.some
    /\ Popen(tc.ref.val) = "started"
    /\ tc' = ConvertModes(tc)
    /\ refproc' = [NoRefProcess EXCEPT !.state = "blocked writing"]
    /\ pc' = IF tc.stdin.some THEN "blocked in wait" ELSE "blocked in read"
    /\ trace' = Append(trace, PopenEvent(tc.ref.val, tc.args, RefStdin(tc)))
    /\ UNCHANGED <<cmp, main, suite, loop, decl, verbosity, result, proc>>

\* The verbosity run() is called with: the suite's, when a suite calls.
CallVerbosity == IF loop.pc = "idle" THEN Verbosity ELSE {suite.verbosity}

\* run(verbosity) of a skipped case.
RunSkipped ==
    /\ pc = "constructed"
    /\ tc.skipped
    /\ \E v \in CallVerbosity : verbosity' = Some(v)
    /\ result' = Some(TestResult(tc.name, SKIPPED, <<>>, NORMAL, None))
    /\ pc' = "returned"
    /\ UNCHANGED <<cmp, main, suite, loop, decl, tc, proc, refproc, trace>>

\* run(verbosity) of a case whose construction recorded an error.
RunInitError ==
    /\ pc = "constructed"
    /\ ~tc.skipped /\ tc.init_error.some
    /\ \E v \in CallVerbosity :
          /\ verbosity' = Some(v)
          /\ result' = Some(TestResult(tc.name, ERROR, <<tc.init_error.val>>,
                                       v, get_command(tc, v)))
    /\ pc' = "returned"
    /\ UNCHANGED <<cmp, main, suite, loop, decl, tc, proc, refproc, trace>>

\* A plausible slip: run() runs the reference binary again, before the
\* tested one.
RunSpawn_ResolvesAgain ==
    /\ pc = "constructed"
    /\ ~tc.skipped /\ ~tc.init_error.some
    /\ Popen(tc.binary) = "started"
    /\ \E v \in CallVerbosity : verbosity' = Some(v)
    /\ pc' = "communicate"
    /\ proc' = [NoProcess EXCEPT !.state = "running", !.stdin = "open",
                                 !.stdout = "open", !.stderr = "open"]
    /\ trace' = trace
            \o (IF tc.ref.some
                THEN <<PopenEvent(tc.ref.val, tc.args, RefStdin(tc))>> ELSE <<>>)
            \o <<PopenEvent(tc.binary, tc.args, "PIPE")>>
    /\ UNCHANGED <<cmp, main, suite, loop, decl, tc, result, refproc>>

\* run(verbosity), the Popen of the tested binary, always with stdin=PIPE.
RunSpawn ==
    /\ pc = "constructed"
    /\ ~tc.skipped /\ ~tc.init_error.some
    /\ \E v \in CallVerbosity :
          /\ verbosity' = Some(v)
          /\ CASE Popen(tc.binary) = "FileNotFoundError" ->
                    /\ result' = Some(TestResult(tc.name, ERROR,
                                                 <<NoSuchFile(tc.binary)>>,
                                                 v, get_command(tc, v)))
                    /\ pc' = "returned"
                    /\ proc' = proc
                    /\ trace' = Append(trace, PopenEvent(tc.binary, tc.args, "PIPE"))
               [] Popen(tc.binary) = "PermissionError" ->
                    /\ result' = result
                    /\ pc' = "raised"
                    /\ proc' = proc
                    /\ trace' = trace \o <<PopenEvent(tc.binary, tc.args, "PIPE"),
                                           RaiseEvent("PermissionError")>>
               [] OTHER ->
                    /\ result' = result
                    /\ pc' = "communicate"
                    /\ proc' = [NoProcess EXCEPT !.state = "running",
                                    !.stdin = "open", !.stdout = "open",
                                    !.stderr = "open"]
                    /\ trace' = Append(trace, PopenEvent(tc.binary, tc.args, "PIPE"))
    /\ UNCHANGED <<cmp, main, suite, loop, decl, tc, refproc>>

\* The child after communicate() returned: reaped, every pipe closed.
Reaped(output, code) ==
    [state |-> "reaped", returncode |-> Some(code), stdin |-> "closed",
     stdout |-> "closed", stderr |-> "closed", timedout |-> FALSE,
     output |-> output]

\* The child after communicate() timed out and process.terminate() sent
\* SIGTERM, which does not wait: a child that died at once is reaped when
\* the Popen object is dropped, one that has not died (it handles or
\* ignores SIGTERM, or has not been scheduled yet) is kept, with its output
\* pipes, in subprocess._active.
Terminated(died) ==
    IF died
    THEN [state |-> "reaped", returncode |-> None, stdin |-> "closed",
          stdout |-> "closed", stderr |-> "closed", timedout |-> TRUE,
          output |-> NoOutput]
    ELSE [state |-> "running", returncode |-> None, stdin |-> "closed",
          stdout |-> "open", stderr |-> "open", timedout |-> TRUE,
          output |-> NoOutput]

\* run(): communicate() returns the child's whole output, which decodes;
\* __run_assertions decides the result; terminate() in the finally clause
\* finds the child reaped and does nothing.
CommunicateCompletes ==
    /\ pc = "communicate"
    /\ \E out \in OutTexts, err \in OutTexts, code \in ExitCodes :
          LET r == run_assertions(tc, out, err, code, verbosity.val)
          IN /\ proc' = Reaped([kind |-> "text", out |-> out, err |-> err], code)
             /\ IF r.raised
                THEN /\ pc' = "raised"
                     /\ result' = result
                     /\ trace' = trace \o r.events \o <<RaiseEvent(r.exc)>>
                ELSE /\ pc' = "returned"
                     /\ result' = Some(r.result)
                     /\ trace' = trace \o r.events
    /\ UNCHANGED <<cmp, main, suite, loop, decl, tc, verbosity, refproc>>

\* run(): communicate() returns output that is not valid UTF-8, and
\* stdout.decode() or stderr.decode() raises.
CommunicateUndecodable ==
    /\ pc = "communicate"
    /\ \E code \in ExitCodes : proc' = Reaped([kind |-> "bytes"], code)
    /\ pc' = "raised"
    /\ trace' = Append(trace, RaiseEvent("UnicodeDecodeError"))
    /\ UNCHANGED <<cmp, main, suite, loop, decl, tc, verbosity, result, refproc>>

\* A plausible slip: a timeout is reported as an ERROR.
CommunicateTimeout_AsError ==
    /\ pc = "communicate"
    /\ tc.timeout.some
    /\ result' = Some(TestResult(tc.name, ERROR,
                                 <<TimeoutExceeded(tc.timeout.val)>>,
                                 verbosity.val, get_command(tc, verbosity.val)))
    /\ \E died \in BOOLEAN : proc' = Terminated(died)
    /\ pc' = "returned"
    /\ UNCHANGED <<cmp, main, suite, loop, decl, tc, verbosity, refproc, trace>>

\* run(): the child has not completed when the timeout expires.
CommunicateTimeout ==
    /\ pc = "communicate"
    /\ tc.timeout.some
    /\ result' = Some(TestResult(tc.name, FAILURE,
                                 <<TimeoutExceeded(tc.timeout.val)>>,
                                 verbosity.val, get_command(tc, verbosity.val)))
    /\ \E died \in BOOLEAN : proc' = Terminated(died)
    /\ pc' = "returned"
    /\ UNCHANGED <<cmp, main, suite, loop, decl, tc, verbosity, refproc, trace>>

Next ==
    \/ ConstructPlain
    \/ ConstructRefFails
    \/ ConstructFromRef
    \/ ConstructBlocks
    \/ RunSkipped
    \/ RunInitError
    \/ RunSpawn
    \/ CommunicateCompletes
    \/ CommunicateUndecodable
    \/ CommunicateTimeout

Spec == Init /\ [][Next]_vars

---------------------------------------------------------------------------
(* refery/test_suite.py: TestSuite *)

\* Most cases a suite holds.
MaxTests == 2

\* The setup and teardown commands: one that succeeds, one that exits with
\* a non-zero status, one that does not exist.
Commands == {"true", "false", "nocmd"}

\* subprocess.run(cmd.split(), check=False): the exit status is dropped,
\* a command that is not found raises.
RunCommand(cmd) == IF cmd = "nocmd" THEN "FileNotFoundError" ELSE "ran"

\* The setup and teardown a suite declares: none, both exiting with a
\* non-zero status, or one of them missing.
Hooks ==
    {<<None, None>>, <<Some("false"), Some("false")>>,
     <<Some("nocmd"), Some("true")>>, <<Some("true"), Some("nocmd")>>}

\* Constructed cases a suite is made of: one whose binary runs and whose
\* stdout and exit code are checked, and its variants that are skipped,
\* hold a construction error, have a binary that is missing or not
\* executable, declare a timeout, or declare stdout_mode by name.
BaseCase ==
    [name |-> "t", binary |-> "bin", args |-> <<"hi">>, ref |-> None,
     stdin |-> None, stdout |-> Some(<<"a">>), stderr |-> None,
     exit_code |-> Some(0), stdout_mode |-> STRICT, stderr_mode |-> STRICT,
     skipped |-> FALSE, timeout |-> None, init_error |-> None]

SuiteCases ==
    {BaseCase,
     [BaseCase EXCEPT !.skipped = TRUE, !.binary = "bin_missing"],
     [BaseCase EXCEPT !.ref = Some("ref_missing"),
                      !.init_error = Some(NoSuchFile("ref_missing"))],
     [BaseCase EXCEPT !.binary = "bin_missing"],
     [BaseCase EXCEPT !.binary = "bin_noexec"],
     [BaseCase EXCEPT !.timeout = Some(1)],
     ConvertModes([BaseCase EXCEPT !.stdout_mode = "exists"])}

\* The cases of a suite carry names unique within it.
Named(tests) == [i \in DOMAIN tests |-> [tests[i] EXCEPT !.name = ToString(i)]]

\* What time.time() can tell between a case's start and its stop, in whole
\* seconds.
Seconds == {0, 2}

\* junit_xml.TestCase(name, classname, elapsed_sec): a record without
\* failure, error or skipped entry until add_failure_info, add_error_info
\* or add_skipped_info is called on it.  elapsed_sec is the quotient
\* num / den.
JxmlTestCase(name, classname, elapsed_sec) ==
    [name |-> name, classname |-> classname, elapsed_sec |-> elapsed_sec,
     failures |-> <<>>, errors |-> <<>>, skipped |-> <<>>]

\* As the older copy of the loop did: the record of a skipped case is given
\* an error entry.
junit_test_case_SkippedAsError(self, test, res, elapsed_time) ==
    [JxmlTestCase(test.name, <<self.name, test.name>>, elapsed_time)
        EXCEPT !.errors = IF res.status = SKIPPED
                          THEN <<"Test skipped">> ELSE <<>>]

\* TestSuite.run: the record appended to junit_test_suite.test_cases for
\* the case test whose run returned res; res is not looked at.
junit_test_case(self, test, res, elapsed_time) ==
    JxmlTestCase(test.name, <<self.name, test.name>>, elapsed_time)

\* TestSuite.run when the loop is entered: nothing printed, no record in
\* junit_test_suite, exit_code = 0.  log keeps the order of the calls of
\* __setup, test.run and __teardown; printed the results given to
\* console.print and console what they rendered as; clock is what
\* time.time() returns now, times the start_time and stop_time taken for
\* each case.
NewLoop ==
    [pc |-> "top", i |-> 1, log |-> <<>>, printed |-> <<>>, console |-> <<>>,
     junit |-> <<>>, exit_code |-> 0, ret |-> None,
     clock |-> 0, start_time |-> 0, times |-> <<>>]

SuiteInit ==
    /\ cmp = CmpIdle
    /\ main = MainIdle
    /\ CaseIdle
    /\ suite \in {[name |-> "s", tests |-> Named(ts), setup |-> h[1],
                   teardown |-> h[2], fatal |-> f, verbosity |-> v] :
                     ts \in UNION {[1..n -> SuiteCases] : n \in 0..MaxTests},
                     h \in Hooks, f \in BOOLEAN, v \in Verbosity}
    /\ loop = NewLoop

\* TestSuite.run, the head of an iteration: __setup().
SuiteSetup ==
    /\ loop.pc = "top"
    /\ loop.i <= Len(suite.tests)
    /\ loop' = IF suite.setup.some
               THEN [loop EXCEPT
                       !.start_time = loop.clock,
                       !.log = Append(@, <<"setup", loop.i>>),
                       !.pc = IF RunCommand(suite.setup.val) = "ran"
                              THEN "call" ELSE "raised"]
               ELSE [loop EXCEPT !.start_time = loop.clock, !.pc = "call"]
    /\ UNCHANGED <<cmp, main, suite>>
    /\ UNCHANGED caseVars

\* TestSuite.run: test.run(self.verbosity) is entered.
SuiteCallRun ==
    /\ loop.pc = "call"
    /\ loop' = [loop EXCEPT !.pc = "in run", !.log = Append(@, <<"run", loop.i>>)]
    /\ decl' = suite.tests[loop.i]
    /\ tc' = suite.tests[loop.i]
    /\ pc' = "constructed"
    /\ verbosity' = None
    /\ result' = None
    /\ proc' = NoProcess
    /\ refproc' = NoRefProcess
    /\ trace' = <<>>
    /\ UNCHANGED <<cmp, main, suite>>

\* TestSuite.run, after test.run returned: __teardown(), then the result is
\* printed, stop_time taken, and the case's record made of its name, its
\* class name and (stop_time - start_time) / 1000, and appended.
SuiteTeardown ==
    /\ loop.pc = "in run"
    /\ pc = "returned"
    /\ \E d \in Seconds :
         LET torn == IF suite.teardown.some
                     THEN [loop EXCEPT !.log = Append(@, <<"teardown", loop.i>>)]
                     ELSE loop
             stop_time == loop.start_time + d
             elapsed_time == [num |-> stop_time - loop.start_time, den |-> 1000]
         IN loop' = IF suite.teardown.some /\ RunCommand(suite.teardown.val) # "ran"
                    THEN [torn EXCEPT !.pc = "raised"]
                    ELSE [torn EXCEPT
                            !.pc = "top",
                            !.i = @ + 1,
                            !.printed = Append(@, result.val),
                            !.console = Append(@, rich(result.val)),
                            !.clock = stop_time,
                            !.times = Append(@, [start |-> loop.start_time,
                                                 stop |-> stop_time]),
                            !.junit = Append(@, junit_test_case(
                                                  suite, tc, result.val,
                                                  elapsed_time))]
    /\ UNCHANGED <<cmp, main, suite>>
    /\ UNCHANGED caseVars

\* TestSuite.run: an exception test.run raised leaves the loop, which has
\* no handler.
SuiteRunRaises ==
    /\ loop.pc = "in run"
    /\ pc = "raised"
    /\ loop' = [loop EXCEPT !.pc = "raised"]
    /\ UNCHANGED <<cmp, main, suite>>
    /\ UNCHANGED caseVars

\* TestSuite.run: the loop is over, exit_code is returned.
SuiteReturn ==
    /\ loop.pc = "top"
    /\ loop.i > Len(suite.tests)
    /\ loop' = [loop EXCEPT !.pc = "returned", !.ret = Some(loop.exit_code)]
    /\ UNCHANGED <<cmp, main, suite>>
    /\ UNCHANGED caseVars

SuiteNext ==
    \/ SuiteSetup
    \/ SuiteCallRun
    \/ RunSkipped
    \/ RunInitError
    \/ RunSpawn
    \/ CommunicateCompletes
    \/ CommunicateUndecodable
    \/ CommunicateTimeout
    \/ SuiteTeardown
    \/ SuiteRunRaises
    \/ SuiteReturn

SuiteSpec == SuiteInit /\ [][SuiteNext]_vars

---------------------------------------------------------------------------
(* main.py: main(), over the suites get_testsuites() returned *)

\* Most suites a test file holds.
MaxSuites == 2

JunitFiles == {"report.xml"}

\* The suites of a test file: no case or one, without setup and teardown.
MainSuites ==
    {[name |-> "s", tests |-> Named(ts), setup |-> None, teardown |-> None,
      fatal |-> f, verbosity |-> NORMAL] :
        ts \in UNION {[1..n -> SuiteCases] : n \in 0..1}, f \in BOOLEAN}

\* get_testsuites(): every suite gets the verbosity of the command line.
WithVerbosity(suites, v) ==
    [j \in DOMAIN suites |->
        [suites[j] EXCEPT !.verbosity = v, !.name = ToString(j)]]

\* bool(n) of an int, and i & b of an int and a bool.
Bool(n) == n # 0
BitAnd(i, b) == IF b THEN i % 2 ELSE 0

MainInit ==
    /\ cmp = CmpIdle
    /\ CaseIdle
    /\ SuiteIdle
    /\ main \in {[pc |-> "loop", testsuites |-> WithVerbosity(ss, v),
                   junit_file |-> jf, j |-> 1, exit_code |-> 1,
                   results |-> <<>>, junits |-> <<>>, report |-> None,
                   ret |-> None] :
                     ss \in UNION {[1..n -> MainSuites] : n \in 0..MaxSuites},
                     v \in Verbosity, jf \in Opt(JunitFiles)}

\* main(), the loop: testsuite.run() is entered.
MainCallRun ==
    /\ main.pc = "loop"
    /\ main.j <= Len(main.testsuites)
    /\ suite' = main.testsuites[main.j]
    /\ loop' = NewLoop
    /\ main' = [main EXCEPT !.pc = "in suite"]
    /\ UNCHANGED cmp
    /\ UNCHANGED caseVars

\* main(), the loop: testsuite.run() returned, exit_code &= bool(...).
\* results keeps what the suite printed, junits its junit_test_suite.
MainSuiteReturned ==
    /\ main.pc = "in suite"
    /\ loop.pc = "returned"
    /\ main' = [main EXCEPT
                  !.pc = "loop",
                  !.j = @ + 1,
                  !.exit_code = BitAnd(@, Bool(loop.ret.val)),
                  !.results = Append(@, loop.printed),
                  !.junits = Append(@, loop.junit)]
    /\ UNCHANGED <<cmp, suite, loop>>
    /\ UNCHANGED caseVars

\* main(): an exception testsuite.run() raised leaves main, which has no
\* handler.
MainSuiteRaised ==
    /\ main.pc = "in suite"
    /\ loop.pc = "raised"
    /\ main' = [main EXCEPT !.pc = "raised"]
    /\ UNCHANGED <<cmp, suite, loop>>
    /\ UNCHANGED caseVars

\* main(), after the loop: the report is written if a file was asked for,
\* and exit_code is returned.
MainReturn ==
    /\ main.pc = "loop"
    /\ main.j > Len(main.testsuites)
    /\ main' = [main EXCEPT
                  !.pc = "returned",
                  !.report = IF main.junit_file.some
                             THEN Some(main.junits) ELSE None,
                  !.ret = Some(main.exit_code)]
    /\ UNCHANGED <<cmp, suite, loop>>
    /\ UNCHANGED caseVars

MainNext ==
    \/ MainCallRun
    \/ SuiteSetup
    \/ SuiteCallRun
    \/ RunSkipped
    \/ RunInitError
    \/ RunSpawn
    \/ CommunicateCompletes
    \/ CommunicateUndecodable
    \/ CommunicateTimeout
    \/ SuiteTeardown
    \/ SuiteRunRaises
    \/ SuiteReturn
    \/ MainSuiteReturned
    \/ MainSuiteRaised
    \/ MainReturn

MainSpec == MainInit /\ [][MainNext]_vars

---------------------------------------------------------------------------
(* Claims about OutputMode.compare, checked under CompareSpec *)

CompareReturned == cmp.pc = "ret" /\ cmp.expected.some

\* STRICT returns no discrepancy exactly when the expected text equals the
\* actual one (holds; the part of C1 that the escaping does not touch).
StrictNoDiffIffEqual ==
    (CompareReturned /\ cmp.mode = STRICT)
        => ((cmp.ret = NoDiff) <=> (cmp.expected.val = cmp.actual))

\* C1: for a declared expected text e and an actual text a, compare under
\* STRICT returns no discrepancy if and only if e = a, and when they differ
\* it returns a textual discrepancy carrying e and a.
C1_StrictCarriesTexts ==
    (CompareReturned /\ cmp.mode = STRICT)
        => /\ (cmp.ret = NoDiff) <=> (cmp.expected.val = cmp.actual)
           /\ cmp.expected.val # cmp.actual
                => /\ cmp.ret.kind = "TextualDiff"
                   /\ cmp.ret.expected = cmp.expected.val
                   /\ cmp.ret.actual = cmp.actual

\* C2: for a declared expected text e and an actual text a, compare under
\* EXISTS returns no discrepancy if and only if (e is empty) = (a is empty);
\* otherwise it returns the value discrepancy nothing/something (expected
\* nothing, got something when e is empty; expected something, got nothing
\* when a is empty), never a textual one.
C2_ExistsComparesEmptiness ==
    (CompareReturned /\ cmp.mode = EXISTS)
        => /\ (cmp.ret = NoDiff)
                <=> ((cmp.expected.val = <<>>) <=> (cmp.actual = <<>>))
           /\ (cmp.expected.val = <<>> /\ cmp.actual # <<>>)
                => cmp.ret = [kind |-> "ValueDiff", name |-> cmp.name,
                              expected |-> "nothing", actual |-> "something"]
           /\ (cmp.expected.val # <<>> /\ cmp.actual = <<>>)
                => cmp.ret = [kind |-> "ValueDiff", name |-> cmp.name,
                              expected |-> "something", actual |-> "nothing"]
           /\ cmp.ret.kind # "TextualDiff"

\* Witness of C2: EXISTS has compared a non-empty expectation with empty
\* output and returned the discrepancy something/nothing.
C2_Witness ==
    /\ CompareReturned /\ cmp.mode = EXISTS
    /\ cmp.expected.val # <<>> /\ cmp.actual = <<>>
    /\ cmp.ret.kind = "ValueDiff" /\ cmp.ret.actual = "nothing"


---------------------------------------------------------------------------
(* Claims about TestCase.run, checked under Spec where not said otherwise *)

\* run() was called.
RunCalled == verbosity.some
\* run() has ended, by returning or by raising.
RunEnded == RunCalled /\ pc \in {"returned", "raised"}
\* The tested process completed normally and its output decoded as text.
Completed == proc.state = "reaped" /\ proc.output.kind = "text"

IsDiff(o) == o.kind \in {"ValueDiff", "TextualDiff"}
\* The result holds a discrepancy reported under this name.
HasDiff(name) ==
    /\ result.some
    /\ \E i \in 1..Len(result.val.outputs) :
          /\ IsDiff(result.val.outputs[i])
          /\ result.val.outputs[i].name = name
Events(kind) == {i \in 1..Len(trace) : trace[i].ev = kind}
NoComparison == Events("compare") = {}
BinarySpawnAttempted == \E i \in Events("Popen") : trace[i].path \in BinaryPaths

\* The policy a declared mode stands for, as a member or by name.
Policy(m) == IF m \in {STRICT, "strict"} THEN STRICT ELSE EXISTS
\* Whether an expectation is declared and the actual text fails it.
TextMismatch(policy, expected, actual) ==
    /\ expected.some
    /\ IF policy = STRICT THEN expected.val # actual
       ELSE (expected.val = <<>>) # (actual = <<>>)

\* C3: for a Test Case without ref whose stdout (stderr, exit_code) is left
\* unset, a completed run never produces a discrepancy for that channel,
\* for any actual value and under either comparison policy.
C3_UnsetNeverDiffers ==
    (Completed /\ ~decl.ref.some)
        => /\ ~decl.stdout.some => ~HasDiff("Standard outputs")
           /\ ~decl.stderr.some => ~HasDiff("Standard errors")
           /\ ~decl.exit_code.some => ~HasDiff("Return codes")

\* Witness of C3: a case without ref and with no expectation at all, stderr
\* under EXISTS and stdout under STRICT, whose child wrote to both streams
\* and exited with 1, returned SUCCESS.
C3_Witness ==
    /\ Completed /\ pc = "returned" /\ ~decl.ref.some
    /\ ~decl.stdout.some /\ ~decl.stderr.some /\ ~decl.exit_code.some
    /\ tc.stdout_mode = STRICT /\ tc.stderr_mode = EXISTS
    /\ proc.output.out # <<>> /\ proc.output.err # <<>>
    /\ proc.returncode = Some(1)
    /\ result.val.status = SUCCESS

\* The discrepancies a completed run owes: one for each declared
\* expectation the child's output fails, in the order stdout, stderr,
\* exit code.
OwedDiscrepancies ==
    SelectSeq(<<"Standard outputs", "Standard errors", "Return codes">>,
              LAMBDA n :
                 CASE n = "Standard outputs" ->
                        TextMismatch(Policy(decl.stdout_mode), tc.stdout, proc.output.out)
                   [] n = "Standard errors" ->
                        TextMismatch(Policy(decl.stderr_mode), tc.stderr, proc.output.err)
                   [] OTHER ->
                        tc.exit_code.some /\ tc.exit_code # proc.returncode)

ReportedDiscrepancies ==
    [i \in 1..Len(result.val.outputs) |-> result.val.outputs[i].name]

\* C4: on normal completion the stdout, stderr and exit-code checks are
\* each evaluated: the discrepancy list holds exactly one discrepancy for
\* each declared expectation that mismatches, whatever the modes.
C4_AllChecksEvaluated ==
    Completed
        => /\ pc = "returned"
           /\ ReportedDiscrepancies = OwedDiscrepancies

\* The part of C4 that holds: a run that returns after normal completion
\* reports exactly the owed discrepancies.
ReturnedReportsOwed ==
    (Completed /\ pc = "returned") => ReportedDiscrepancies = OwedDiscrepancies

\* C5: on normal completion the outcome of run is SUCCESS if and only if
\* the discrepancy list is empty, and FAILURE otherwise.
C5_SuccessIffNoDiscrepancy ==
    Completed
        => /\ result.some
           /\ result.val.status \in {SUCCESS, FAILURE}
           /\ (result.val.status = SUCCESS) <=> (result.val.outputs = <<>>)

\* The part of C5 that holds: among the runs that return.
ReturnedSuccessIffNoDiscrepancy ==
    (Completed /\ pc = "returned")
        => /\ result.val.status \in {SUCCESS, FAILURE}
           /\ (result.val.status = SUCCESS) <=> (result.val.outputs = <<>>)

\* C6: a case with skipped = true spawns no process, neither at
\* construction nor in run, makes no comparison, and run returns SKIPPED
\* with no discrepancy, also when the binary does not exist.
C6_SkippedNeverRuns ==
    decl.skipped
        => /\ trace = <<>> /\ proc = NoProcess /\ refproc = NoRefProcess
           /\ pc \in {"declared", "constructed", "returned"}
           /\ pc = "returned"
                => /\ result.some
                   /\ result.val.status = SKIPPED
                   /\ result.val.outputs = <<>>

\* Witness of C6: a skipped case whose binary and ref do not exist has
\* returned SKIPPED.
C6_Witness ==
    /\ decl.skipped /\ pc = "returned"
    /\ decl.binary = "bin_missing" /\ decl.ref = Some("ref_missing")
    /\ result.val.status = SKIPPED

\* The reference binary was not found when the case was constructed.
RefNotFound ==
    ~decl.skipped /\ decl.ref.some /\ Popen(decl.ref.val) = "FileNotFoundError"

\* C7: if the reference binary could not be located at construction, the
\* error is recorded, run returns ERROR with the recorded message as its
\* sole discrepancy, and the tested binary is never spawned; run leaves
\* the record in place for the runs after it.
C7_InitErrorShortCircuits ==
    (RefNotFound /\ pc # "declared")
        => /\ tc.init_error = Some(NoSuchFile(decl.ref.val))
           /\ proc = NoProcess /\ ~BinarySpawnAttempted
           /\ pc \in {"constructed", "returned"}
           /\ pc = "returned"
                => /\ result.some
                   /\ result.val.status = ERROR
                   /\ result.val.outputs = <<tc.init_error.val>>

\* Witness of C7: a case whose binary exists and whose ref does not has
\* returned ERROR.
C7_Witness ==
    /\ RefNotFound /\ pc = "returned"
    /\ decl.binary = "bin" /\ decl.stdout.some
    /\ result.val.status = ERROR

\* A case whose run reaches the Popen of a binary that cannot be started.
Unlaunchable(c) ==
    ~c.skipped /\ ~c.init_error.some /\ Popen(c.binary) # "started"

\* The part of C8 that holds, under Spec: for a binary that does not exist
\* run returns ERROR with the single message and compares nothing.
MissingBinaryIsError ==
    (RunCalled /\ ~decl.skipped /\ ~tc.init_error.some
               /\ Popen(decl.binary) = "FileNotFoundError")
        => /\ pc = "returned"
           /\ result.val.status = ERROR
           /\ result.val.outputs = <<NoSuchFile(decl.binary)>>
           /\ NoComparison

\* C8 (under SuiteSpec): if the tested binary cannot be located or launched
\* (missing, or present but not executable), run returns ERROR with the
\* single message that the binary was not found and compares nothing; the
\* fault stays within the case: it never ends the suite's run before the
\* cases after it.
C8_BinaryFaultStaysInCase ==
    /\ \A i \in 1..Len(loop.printed) :
          Unlaunchable(suite.tests[i])
             => /\ loop.printed[i].status = ERROR
                /\ loop.printed[i].outputs = <<NoSuchFile(suite.tests[i].binary)>>
    /\ (loop.pc = "in run" /\ pc = "returned" /\ Unlaunchable(tc)) => NoComparison
    /\ (loop.pc = "raised" /\ pc = "raised" /\ loop.i < Len(suite.tests))
          => ~Unlaunchable(tc)

\* The part of C8 that holds, under SuiteSpec: a missing binary gives ERROR
\* for its case and the suite goes on to the next case.
MissingBinaryStaysInCase ==
    /\ \A i \in 1..Len(loop.printed) :
          Unlaunchable(suite.tests[i])
             => /\ loop.printed[i].status = ERROR
                /\ loop.printed[i].outputs = <<NoSuchFile(suite.tests[i].binary)>>
    /\ (loop.pc = "raised" /\ pc = "raised")
          => Popen(tc.binary) # "FileNotFoundError"

\* C9: if the tested process has not completed when the declared timeout
\* expires, run returns FAILURE with exactly one discrepancy, which states
\* the timeout value, and compares nothing.
C9_TimeoutIsFailure ==
    proc.timedout
        => /\ decl.timeout.some
           /\ pc = "returned"
           /\ result.some
           /\ result.val.status = FAILURE
           /\ result.val.outputs = <<TimeoutExceeded(decl.timeout.val)>>
           /\ NoComparison

\* Witness of C9: a case with every expectation declared and a timeout of
\* more than a second timed out and returned FAILURE.
C9_Witness ==
    /\ proc.timedout /\ pc = "returned"
    /\ decl.timeout.some /\ decl.timeout.val > 1
    /\ decl.stdout.some /\ decl.stderr.some /\ decl.exit_code.some
    /\ result.val.status = FAILURE

\* C10: on every exit path of run after a spawn was attempted, the child
\* is no longer running and its pipes are released when run ends.
C10_NoChildLeftBehind ==
    (RunEnded /\ BinarySpawnAttempted)
        => /\ proc.state \in {"none", "reaped"}
           /\ proc.stdin \in {"none", "closed"}
           /\ proc.stdout \in {"none", "closed"}
           /\ proc.stderr \in {"none", "closed"}

\* The part of C10 that holds: the exit paths other than the timeout.
NoChildLeftBehindUnlessTimedOut ==
    (RunEnded /\ BinarySpawnAttempted /\ ~proc.timedout)
        => /\ proc.state \in {"none", "reaped"}
           /\ proc.stdout \in {"none", "closed"}
           /\ proc.stderr \in {"none", "closed"}

---------------------------------------------------------------------------
(* Claims about the reference run of TestCase.__post_init__, under Spec *)

\* The constructor ran the reference binary and read what it wrote.
RefRan ==
    /\ ~decl.skipped /\ decl.ref.some
    /\ pc \notin {"declared", "blocked in wait", "blocked in read"}
    /\ refproc.output.kind = "text"
\* The reference processes spawned so far.
RefSpawns == {i \in Events("Popen") : trace[i].path \in RefPaths}

\* C11: when ref is set and the reference binary runs, after construction
\* each of stdout, stderr and exit_code that was left unset holds what the
\* reference process wrote on that stream, or the status it exited with,
\* whether or not stdin is set.
C11_UnsetResolvedFromRef ==
    RefRan
        => /\ ~decl.stdout.some => tc.stdout = Some(refproc.output.out)
           /\ ~decl.stderr.some => tc.stderr = Some(refproc.output.err)
           /\ ~decl.exit_code.some => tc.exit_code = refproc.exitstatus

\* The part of C11 that holds: the two texts always, the exit code when
\* stdin is set.
UnsetResolvedFromRefWithStdin ==
    RefRan
        => /\ ~decl.stdout.some => tc.stdout = Some(refproc.output.out)
           /\ ~decl.stderr.some => tc.stderr = Some(refproc.output.err)
           /\ (~decl.exit_code.some /\ decl.stdin.some)
                 => tc.exit_code = refproc.exitstatus

\* C12: constructing a case with ref set never changes a declared stdout,
\* stderr or exit_code, whatever the reference process produced; run does
\* not change them either.
C12_ExplicitValuesKept ==
    (decl.ref.some /\ pc # "declared")
        => /\ decl.stdout.some => tc.stdout = decl.stdout
           /\ decl.stderr.some => tc.stderr = decl.stderr
           /\ decl.exit_code.some => tc.exit_code = decl.exit_code

\* Witness of C12: a case declared with the empty stdout and exit code 0
\* was constructed from a reference process that wrote to stdout and
\* exited with 1, and keeps the declared values.
C12_Witness ==
    /\ RefRan /\ decl.stdin.some
    /\ decl.stdout = Some(<<>>) /\ refproc.output.out # <<>>
    /\ decl.exit_code = Some(0) /\ refproc.exitstatus = Some(1)
    /\ tc.stdout = Some(<<>>) /\ tc.exit_code = Some(0)

\* C13: the reference binary is spawned once, by the constructor of a case
\* that is not skipped and has a ref, and never again: no step after
\* construction spawns a reference process or changes stdout, stderr or
\* exit_code.
C13_RefRunOnceAtConstruction ==
    [][/\ (pc = "declared" /\ ~tc.skipped /\ tc.ref.some)
             => Cardinality(RefSpawns') = 1
       /\ (pc = "declared" /\ (tc.skipped \/ ~tc.ref.some))
             => RefSpawns' = {}
       /\ pc # "declared"
             => /\ RefSpawns' = RefSpawns
                /\ tc'.stdout = tc.stdout
                /\ tc'.stderr = tc.stderr
                /\ tc'.exit_code = tc.exit_code]_vars

\* Witness of C13: a case whose stdout was resolved from the reference
\* process has run to completion, with one reference process spawned and
\* stdout still the reference's.
C13_Witness ==
    /\ RefRan /\ Completed /\ pc = "returned"
    /\ ~decl.stdout.some /\ tc.stdout = Some(refproc.output.out)
    /\ Cardinality(RefSpawns) = 1

---------------------------------------------------------------------------
(* Claims about TestSuite.run, checked under SuiteSpec *)

\* TestSuite.run has ended, by returning or by an exception leaving it.
SuiteEnded == loop.pc \in {"returned", "raised"}
Bad(status) == status \in {FAILURE, ERROR}

\* The calls one case is owed, in order: setup (if configured), the case's
\* run, teardown (if configured); and those of the first n cases.
LogOf(i) ==
    (IF suite.setup.some THEN << <<"setup", i>> >> ELSE <<>>)
    \o << <<"run", i>> >>
    \o (IF suite.teardown.some THEN << <<"teardown", i>> >> ELSE <<>>)
RECURSIVE FullLog(_)
FullLog(n) == IF n = 0 THEN <<>> ELSE FullLog(n - 1) \o LogOf(n)
IsPrefix(s, t) == Len(s) <= Len(t) /\ s = SubSeq(t, 1, Len(s))
\* The calls made for case i, in the order they were made.
CallsFor(i) == SelectSeq(loop.log, LAMBDA e : e[2] = i)
Processed(i) == CallsFor(i) # <<>>

\* The setup and teardown commands, where configured, can be launched.
CommandsRun ==
    /\ suite.setup.some => RunCommand(suite.setup.val) = "ran"
    /\ suite.teardown.some => RunCommand(suite.teardown.val) = "ran"

\* C14: with fatal unset, TestSuite.run executes every case exactly once,
\* in declaration order, whatever the earlier cases did, and sequentially:
\* the calls are made in the order setup, run, teardown of case 1, then of
\* case 2, and so on, and when the run of the suite has ended every case
\* has been executed.  Stated for the suites whose setup and teardown
\* commands can be launched.
C14_EveryCaseOnceInOrder ==
    (~suite.fatal /\ CommandsRun)
        => /\ IsPrefix(loop.log, FullLog(Len(suite.tests)))
           /\ SuiteEnded
                => SelectSeq(loop.log, LAMBDA e : e[1] = "run")
                      = [i \in 1..Len(suite.tests) |-> <<"run", i>>]

\* The part of C14 that holds: the order is kept, and a suite run that
\* returns has executed every case once, whatever the outcomes.
EveryCaseOnceInOrderIfReturned ==
    /\ IsPrefix(loop.log, FullLog(Len(suite.tests)))
    /\ loop.pc = "returned" => loop.log = FullLog(Len(suite.tests))
    /\ loop.pc = "raised"
          => \/ pc = "raised"
             \/ suite.setup.some /\ RunCommand(suite.setup.val) # "ran"
             \/ suite.teardown.some /\ RunCommand(suite.teardown.val) # "ran"

\* C15: every case the suite processes, a skipped one included, gets the
\* configured setup before its execution and the configured teardown
\* after it: when the run of the suite has ended, the calls made for each
\* processed case are setup, run, teardown, each once.  Stated for the
\* suites whose setup and teardown commands can be launched.
C15_SetupAndTeardownAroundEveryCase ==
    (SuiteEnded /\ CommandsRun)
        => \A i \in 1..Len(suite.tests) : Processed(i) => CallsFor(i) = LogOf(i)

\* The part of C15 that holds: the cases whose result was printed, the
\* skipped ones included.
SetupAndTeardownAroundPrintedCases ==
    \A i \in 1..Len(loop.printed) : CallsFor(i) = LogOf(i)

\* C16: if fatal is set and a case's outcome is FAILURE or ERROR, no later
\* case of the suite is set up, executed, torn down, rendered or recorded.
C16_FatalAborts ==
    \A i \in 1..Len(loop.printed) :
        (suite.fatal /\ Bad(loop.printed[i].status))
            => /\ \A k \in 1..Len(loop.log) : loop.log[k][2] <= i
               /\ Len(loop.printed) <= i
               /\ Len(loop.console) <= i
               /\ Len(loop.junit) <= i

\* C17: TestSuite.run returns 0 if and only if no case resolved to FAILURE
\* or ERROR.
C17_ReturnsFailureStatus ==
    loop.pc = "returned"
        => (loop.ret = Some(0)
              <=> \A i \in 1..Len(loop.printed) : ~Bad(loop.printed[i].status))

\* Every output of the i-th printed result is in what was rendered for it.
DetailRendered(i) ==
    \A k \in 1..Len(loop.printed[i].outputs) :
        \E m \in 1..Len(loop.console[i].body) :
            loop.console[i].body[m] = loop.printed[i].outputs[k]

\* C20: under SILENT every case renders as its title alone (glyph and
\* name); under NORMAL and VERBOSE every FAILURE and ERROR case renders
\* all of its discrepancies.
C20_DetailGatedByVerbosity ==
    \A i \in 1..Len(loop.console) :
        /\ suite.verbosity = SILENT
              => loop.console[i].kind = "title" /\ loop.console[i].body = <<>>
        /\ (suite.verbosity # SILENT /\ Bad(loop.printed[i].status))
              => DetailRendered(i)

\* The part of C20 that holds: the discrepancies of a FAILURE or ERROR case
\* are rendered, under every verbosity.
DetailAlwaysRendered ==
    \A i \in 1..Len(loop.console) :
        Bad(loop.printed[i].status) => DetailRendered(i)

---------------------------------------------------------------------------
(* Claims about main(), checked under MainSpec *)

\* main() has ended, by returning or by an exception leaving it.
MainEnded == main.pc \in {"returned", "raised"}
\* Some case of some suite resolved to FAILURE or ERROR.
SomeCaseBad ==
    \E j \in 1..Len(main.results) :
        \E i \in 1..Len(main.results[j]) : Bad(main.results[j][i].status)

\* C18: whatever happens within the run of one suite (a fatal abort, or
\* any fault of one of its cases), nothing propagates out of the suite's
\* run: when main has ended, every suite has been run and the report was
\* written if one was asked for.
C18_FaultsStayInSuite ==
    MainEnded
        => /\ main.pc = "returned"
           /\ Len(main.results) = Len(main.testsuites)
           /\ main.junit_file.some => main.report.some

\* The part of C18 that holds: a main that returns has run every suite
\* and written the report that was asked for.
ReturnedMainRanEverySuite ==
    main.pc = "returned"
        => /\ Len(main.results) = Len(main.testsuites)
           /\ main.junit_file.some
                => /\ main.report.some
                   /\ Len(main.report.val) = Len(main.testsuites)

\* C19: the exit status main returns is 0 if every case of every suite
\* that is not skipped succeeded, and non-zero if some case of some suite
\* resolved to FAILURE or ERROR.  Stated for the test files that hold at
\* least one suite.
C19_ExitStatus ==
    (main.pc = "returned" /\ Len(main.testsuites) >= 1)
        => (main.ret = Some(0) <=> ~SomeCaseBad)

---------------------------------------------------------------------------
(* Claims about the report records, checked under SuiteSpec *)

\* The record of case i carries a failure entry, an error entry.
HasFailureInfo(i) == loop.junit[i].failures # <<>>
HasErrorInfo(i) == loop.junit[i].errors # <<>>

\* C21: after a suite run, the report record of every case that resolved
\* to FAILURE carries a failure entry and that of every case that resolved
\* to ERROR an error entry, and the record of a SUCCESS case carries
\* neither.
C21_ReportCarriesFailures ==
    SuiteEnded
        => \A i \in 1..Len(loop.junit) :
              /\ loop.printed[i].status = FAILURE => HasFailureInfo(i)
              /\ loop.printed[i].status = ERROR => HasErrorInfo(i)
              /\ loop.printed[i].status = SUCCESS
                    => ~HasFailureInfo(i) /\ ~HasErrorInfo(i)

\* The part of C21 that holds: every record is made of the case's name and
\* the qualified name suite.test, and the record of a SUCCESS case carries
\* neither failure nor error entry.
SuccessRecordIsBare ==
    \A i \in 1..Len(loop.junit) :
        /\ loop.junit[i].name = loop.printed[i].name
        /\ loop.junit[i].classname = <<suite.name, loop.printed[i].name>>
        /\ loop.printed[i].status = SUCCESS
              => ~HasFailureInfo(i) /\ ~HasErrorInfo(i)

---------------------------------------------------------------------------
(* Claims about one Test Case, checked under Spec *)

\* The case has been constructed: __post_init__ returned.
Constructed == pc \in {"constructed", "communicate", "returned"}

\* C23: stdout_mode and stderr_mode are set per channel: with the two
\* modes declared by name, the constructed case compares stdout under the
\* policy declared as stdout_mode and stderr under the policy declared as
\* stderr_mode, and what is declared for one channel does not change the
\* other.
C23_ModesPerChannel ==
    (Constructed /\ IsStr(decl.stdout_mode) /\ IsStr(decl.stderr_mode))
        => /\ tc.stdout_mode = Policy(decl.stdout_mode)
           /\ tc.stderr_mode = Policy(decl.stderr_mode)

\* The part of C23 that holds: modes declared as members of OutputMode,
\* the default STRICT among them, are kept as declared when they agree.
MemberModesKeptWhenEqual ==
    (/\ Constructed
     /\ decl.stdout_mode \in OutputMode
     /\ decl.stderr_mode = decl.stdout_mode)
        => /\ tc.stdout_mode = decl.stdout_mode
           /\ tc.stderr_mode = decl.stderr_mode

\* The outcome run owes, by priority: skipped, then a construction error,
\* then a spawn failure, then a timeout, then the comparison.
OwedStatus ==
    IF tc.skipped THEN SKIPPED
    ELSE IF tc.init_error.some THEN ERROR
    ELSE IF Popen(tc.binary) # "started" THEN ERROR
    ELSE IF proc.timedout THEN FAILURE
    ELSE IF result.some /\ result.val.outputs = <<>> THEN SUCCESS
    ELSE FAILURE

\* C24: every call of run ends by returning exactly one of SKIPPED, ERROR,
\* FAILURE and SUCCESS, decided in the order skipped, construction error,
\* spawn failure, timeout, comparison; no fault leaves run as an
\* exception.  Stated for the cases whose binary can be launched and whose
\* modes are declared as members of OutputMode.
C24_RunAlwaysReturnsAnOutcome ==
    (/\ RunEnded
     /\ Popen(decl.binary) = "started"
     /\ decl.stdout_mode \in OutputMode /\ decl.stderr_mode \in OutputMode)
        => /\ pc = "returned"
           /\ result.some
           /\ result.val.status \in TestStatus
           /\ result.val.status = OwedStatus

\* The part of C24 that holds: a run that returns returns the outcome owed
\* by the priority order, for every case.
ReturnedOutcomeByPriority ==
    (RunCalled /\ pc = "returned")
        => /\ result.some
           /\ result.val.status \in TestStatus
           /\ result.val.status = OwedStatus

---------------------------------------------------------------------------
(* Claims about the suite's loop, checked under SuiteSpec *)

\* An exception left TestSuite.run from __setup or __teardown: the loop
\* was left while no run of a case was raising.
HookRaised == loop.pc = "raised" /\ pc # "raised"

\* C25: setup and teardown are best effort: a failure of either command,
\* be it a non-zero exit status or a command that cannot be found or
\* launched, is discarded; it does not abort the case or the suite and
\* does not leave the suite's run as a fault.
C25_HooksBestEffort == ~HookRaised

\* The part of C25 that holds: the exit status of a setup or teardown
\* command that was launched is discarded.
LaunchedHooksDiscarded == CommandsRun => ~HookRaised

---------------------------------------------------------------------------
(* More claims about one Test Case, checked under Spec *)

\* The spawns of the tested binary so far.
BinarySpawns == {i \in Events("Popen") : trace[i].path \in BinaryPaths}

\* C26: the standard input of the tested process is connected only if
\* stdin is set: with stdin set the process is spawned with a pipe, which
\* is closed by the time the process has completed; with stdin unset it
\* is spawned with no pipe attached.
C26_StdinOnlyIfSet ==
    /\ \A i \in BinarySpawns :
          trace[i].stdin = (IF tc.stdin.some THEN "PIPE" ELSE "None")
    /\ Completed => proc.stdin = "closed"

\* The part of C26 that holds: the tested process is always spawned with a
\* pipe as its standard input, and the pipe is closed by the time the
\* process has completed; the reference process is spawned with a pipe
\* only if stdin is set.
StdinPipeClosedOnCompletion ==
    /\ \A i \in BinarySpawns : trace[i].stdin = "PIPE"
    /\ \A i \in RefSpawns : trace[i].stdin = RefStdin(tc)
    /\ Completed => proc.stdin = "closed"

---------------------------------------------------------------------------
(* diff.py: TextualDiff.__rich__, the rendering of a textual discrepancy *)

\* The texts rendered, of at most MaxDiffLen characters.
MaxDiffLen == 4
DiffChars == {"a", "<", "\n"}
DiffTexts == UNION {[1..n -> DiffChars] : n \in 0..MaxDiffLen}

\* The character U+21B5 that shows a newline.
Marker == "u21b5"

\* s.endswith("\n")
EndsWithNewline(s) == s # <<>> /\ s[Len(s)] = "\n"

\* As the older copy of the rendering did: every newline is shown.
pretty_newline_Always(expected, actual) == <<Marker>>

\* __rich__: what is put before every newline of both texts: the marker
\* if exactly one of the texts ends with a newline, nothing otherwise.
pretty_newline(expected, actual) ==
    IF EndsWithNewline(actual) = EndsWithNewline(expected)
    THEN <<>> ELSE <<Marker>>

\* text.replace("\n", marker + "\n").splitlines(): the lines of the text,
\* each line that a newline ends carrying the marker, and no line after
\* the last newline if nothing follows it.  cur is the line being read.
\* Of the characters that splitlines() breaks lines at, the texts hold
\* "\n" only.
RECURSIVE splitlines(_, _, _)
splitlines(text, marker, cur) ==
    IF text = <<>> THEN (IF cur = <<>> THEN <<>> ELSE <<cur>>)
    ELSE IF Head(text) = "\n"
         THEN <<cur \o marker>> \o splitlines(Tail(text), marker, <<>>)
         ELSE splitlines(Tail(text), marker, Append(cur, Head(text)))

\* difflib.SequenceMatcher.find_longest_match over a[alo..ahi] and
\* b[blo..bhi]: of the longest common blocks <<i, j, k>> the one that
\* starts earliest in a and, of those, earliest in b.
CommonBlocks(a, b, alo, ahi, blo, bhi) ==
    {m \in (alo..ahi) \X (blo..bhi) \X (1..Len(a)) :
        /\ m[1] + m[3] - 1 <= ahi
        /\ m[2] + m[3] - 1 <= bhi
        /\ \A t \in 0..(m[3] - 1) : a[m[1] + t] = b[m[2] + t]}

find_longest_match(a, b, alo, ahi, blo, bhi) ==
    LET ms == CommonBlocks(a, b, alo, ahi, blo, bhi)
    IN CHOOSE m \in ms :
          \A o \in ms :
             \/ m[3] > o[3]
             \/ m[3] = o[3] /\ m[1] < o[1]
             \/ m[3] = o[3] /\ m[1] = o[1] /\ m[2] <= o[2]

\* difflib.SequenceMatcher.get_matching_blocks: the longest match, then
\* the matching blocks to its left and to its right.
RECURSIVE get_matching_blocks(_, _, _, _, _, _)
get_matching_blocks(a, b, alo, ahi, blo, bhi) ==
    IF CommonBlocks(a, b, alo, ahi, blo, bhi) = {} THEN <<>>
    ELSE LET m == find_longest_match(a, b, alo, ahi, blo, bhi)
         IN get_matching_blocks(a, b, alo, m[1] - 1, blo, m[2] - 1)
            \o <<m>>
            \o get_matching_blocks(a, b, m[1] + m[3], ahi, m[2] + m[3], bhi)

\* The lines of a diff carry their tag as first character.
Tagged(tag, lines) == [n \in 1..Len(lines) |-> <<tag>> \o lines[n]]
Slice(s, lo, hi) == IF lo > hi THEN <<>> ELSE SubSeq(s, lo, hi)

\* difflib.unified_diff, the lines of the opcodes from position i of a and
\* j of b on: before each matching block the lines of a that are left out
\* of it, tagged "-", then those of b, tagged "+", then the block's lines,
\* tagged " ".
RECURSIVE opcode_lines(_, _, _, _, _)
opcode_lines(a, b, blocks, i, j) ==
    IF blocks = <<>>
    THEN Tagged("-", Slice(a, i, Len(a))) \o Tagged("+", Slice(b, j, Len(b)))
    ELSE LET m == Head(blocks)
         IN Tagged("-", Slice(a, i, m[1] - 1))
            \o Tagged("+", Slice(b, j, m[2] - 1))
            \o Tagged(" ", Slice(a, m[1], m[1] + m[3] - 1))
            \o opcode_lines(a, b, Tail(blocks), m[1] + m[3], m[2] + m[3])

\* The lines of context unified_diff keeps around a change (its default).
ContextLines == 3

\* The number of lines tagged " " that a diff starts with, ends with.
LeadingContext(d) ==
    CHOOSE n \in 0..Len(d) :
        /\ \A k \in 1..n : d[k][1] = " "
        /\ n = Len(d) \/ d[n + 1][1] # " "
TrailingContext(d) ==
    CHOOSE n \in 0..Len(d) :
        /\ \A k \in 1..n : d[Len(d) + 1 - k][1] = " "
        /\ n = Len(d) \/ d[Len(d) - n][1] # " "

\* difflib.unified_diff(a, b, lineterm=""): nothing if a = b; otherwise
\* the two header lines, the hunk header, and the tagged lines with at
\* most ContextLines lines of context before the first and after the last
\* change.  The ranges of the hunk header are left out, and so is the
\* split into several hunks, which takes more than 2 * ContextLines
\* common lines between two changes.
unified_diff(a, b) ==
    LET d == opcode_lines(a, b,
                          get_matching_blocks(a, b, 1, Len(a), 1, Len(b)),
                          1, 1)
        lead == LeadingContext(d)
        trail == TrailingContext(d)
        from == IF lead > ContextLines THEN lead - ContextLines + 1 ELSE 1
        to == IF trail > ContextLines
              THEN Len(d) - (trail - ContextLines) ELSE Len(d)
    IN IF a = b THEN <<>>
       ELSE << <<"-", "-", "-", " ">>, <<"+", "+", "+", " ">>, <<"@", "@">> >>
            \o Slice(d, from, to)

\* TextualDiff.__format_line: a line that starts with "-" is shown as "- "
\* in red and the rest of the line on dark red, one that starts with "+"
\* as "+ " in green and the rest on dark green; any other line is shown
\* unstyled after a space.
format_line(line) ==
    IF line # <<>> /\ Head(line) = "-"
    THEN [style |-> "red", text |-> <<"-", " ">> \o Tail(line)]
    ELSE IF line # <<>> /\ Head(line) = "+"
    THEN [style |-> "green", text |-> <<"+", " ">> \o Tail(line)]
    ELSE [style |-> "", text |-> <<" ">> \o line]

\* As the older copy of the rendering did: the diff is taken from the
\* expected lines to the actual ones.
TextualDiff_rich_Swapped(self) ==
    LET marker == pretty_newline(self.expected, self.actual)
        actual_lines == splitlines(self.actual, marker, <<>>)
        expected_lines == splitlines(self.expected, marker, <<>>)
        diff_lines == unified_diff(expected_lines, actual_lines)
        content == SelectSeq(Slice(diff_lines, 3, Len(diff_lines)),
                             LAMBDA s : ~(s # <<>> /\ Head(s) = "@"))
    IN [title |-> self.name,
        header |-> <<"--- got", "+++ expected">>,
        lines |-> [n \in 1..Len(content) |-> format_line(content[n])]]

\* TextualDiff.__rich__: the panel titled with the discrepancy's name,
\* the header that names the "-" side got and the "+" side expected, and
\* the lines of unified_diff(actual_lines, expected_lines) without its
\* first two lines and without the lines that start with "@".
TextualDiff_rich(self) ==
    LET marker == pretty_newline(self.expected, self.actual)
        actual_lines == splitlines(self.actual, marker, <<>>)
        expected_lines == splitlines(self.expected, marker, <<>>)
        diff_lines == unified_diff(actual_lines, expected_lines)
        content == SelectSeq(Slice(diff_lines, 3, Len(diff_lines)),
                             LAMBDA s : ~(s # <<>> /\ Head(s) = "@"))
    IN [title |-> self.name,
        header |-> <<"--- got", "+++ expected">>,
        lines |-> [n \in 1..Len(content) |-> format_line(content[n])]]

---------------------------------------------------------------------------
(* DiffSpec: the rendering of the discrepancy of every two texts that differ *)

DiffInit ==
    /\ cmp \in {[pc |-> "made", expected |-> p[1], actual |-> p[2],
                 diff |-> TextualDiff("Standard outputs", p[1], p[2]),
                 rendered |-> None] :
                    p \in {q \in DiffTexts \X DiffTexts : q[1] # q[2]}}
    /\ CaseIdle
    /\ SuiteIdle
    /\ main = MainIdle

\* console.print of the discrepancy: __rich__.
RenderDiff ==
    /\ cmp.pc = "made"
    /\ cmp' = [cmp EXCEPT !.pc = "rendered",
                          !.rendered = Some(TextualDiff_rich(cmp.diff))]
    /\ UNCHANGED caseVars
    /\ UNCHANGED suiteVars
    /\ UNCHANGED main

DiffNext == RenderDiff

DiffSpec == DiffInit /\ [][DiffNext]_vars

---------------------------------------------------------------------------
(* Claims about the rendering of a textual discrepancy, checked under DiffSpec *)

Rendered == cmp.pc = "rendered"
\* The lines rendered, the mark of one (its first character) and the line
\* of text it shows (what follows the mark and the space after it).
RenderedLines == cmp.rendered.val.lines
Mark(l) == l.text[1]
Shown(l) == Slice(l.text, 3, Len(l.text))
Range(s) == {s[n] : n \in DOMAIN s}
\* The lines of a text as they are displayed for the pair of texts e, a.
LinesOf(text, e, a) == Range(splitlines(text, pretty_newline(e, a), <<>>))
\* Those of the declared texts, and of the texts the discrepancy carries.
ExpectedLines == LinesOf(cmp.expected, cmp.expected, cmp.actual)
ActualLines == LinesOf(cmp.actual, cmp.expected, cmp.actual)
CarriedExpectedLines == LinesOf(cmp.diff.expected, cmp.diff.expected, cmp.diff.actual)
CarriedActualLines == LinesOf(cmp.diff.actual, cmp.diff.expected, cmp.diff.actual)

\* C27: in the rendered textual discrepancy every line marked "+" is a
\* line present only in the actual ("got") text, every line marked "-" a
\* line present only in the expected text, and every unmarked line a line
\* common to both.
C27_PlusIsGot ==
    Rendered
        => \A n \in DOMAIN RenderedLines :
              LET l == RenderedLines[n]
              IN /\ Mark(l) = "+" => /\ Shown(l) \in ActualLines
                                     /\ Shown(l) \notin ExpectedLines
                 /\ Mark(l) = "-" => /\ Shown(l) \in ExpectedLines
                                     /\ Shown(l) \notin ActualLines
                 /\ Mark(l) = " " => /\ Shown(l) \in ActualLines
                                     /\ Shown(l) \in ExpectedLines

\* C27, amended: the header names the "-" side got and the "+" side
\* expected; every line marked "-" is a line of the actual ("got") text
\* and every line marked "+" a line of the expected text, the texts being
\* those the discrepancy carries; every unmarked line is a line of both.
C27_MinusIsGot ==
    Rendered
        => /\ cmp.rendered.val.header = <<"--- got", "+++ expected">>
           /\ \A n \in DOMAIN RenderedLines :
                 LET l == RenderedLines[n]
                 IN /\ Mark(l) \in {"-", "+", " "}
                    /\ Mark(l) = "-" => Shown(l) \in CarriedActualLines
                    /\ Mark(l) = "+" => Shown(l) \in CarriedExpectedLines
                    /\ Mark(l) = " " => /\ Shown(l) \in CarriedActualLines
                                        /\ Shown(l) \in CarriedExpectedLines

\* Witness of C27: a discrepancy of two texts of two lines was rendered
\* with a "-" line, a "+" line and an unmarked one, the "-" line being no
\* line of the expected text and the "+" line no line of the actual one.
C27_Witness ==
    /\ Rendered
    /\ \E i, j, k \in DOMAIN RenderedLines :
          /\ Mark(RenderedLines[i]) = "-"
          /\ Shown(RenderedLines[i]) \notin CarriedExpectedLines
          /\ Mark(RenderedLines[j]) = "+"
          /\ Shown(RenderedLines[j]) \notin CarriedActualLines
          /\ Mark(RenderedLines[k]) = " "

\* The marker of a newline shows in some rendered line.
MarkerShown == \E n \in DOMAIN RenderedLines : Marker \in Range(RenderedLines[n].text)

\* C28: the rendered textual discrepancy shows newlines with the marker if
\* and only if exactly one of the expected and the actual text ends with a
\* newline; otherwise the lines are displayed without any marker.
C28_MarkerIffOneEndsWithNewline ==
    Rendered
        => (MarkerShown
              <=> EndsWithNewline(cmp.expected) # EndsWithNewline(cmp.actual))

\* Witness of C28: two texts that differ in their last newline only were
\* rendered, with the marker.
C28_Witness ==
    /\ Rendered
    /\ cmp.expected = cmp.actual \o <<"\n">>
    /\ cmp.actual # <<>>
    /\ MarkerShown

---------------------------------------------------------------------------
(* Claims about the timing and the number of report records, checked under
   SuiteSpec *)

\* C29: the elapsed time of each report record is the number of seconds
\* between the start timestamp of its case, taken before setup, and the
\* stop timestamp, taken after teardown: stop minus start, not rescaled.
C29_ElapsedIsStopMinusStart ==
    \A i \in 1..Len(loop.junit) :
        loop.junit[i].elapsed_sec.num
            = (loop.times[i].stop - loop.times[i].start) * loop.junit[i].elapsed_sec.den

\* The part of C29 that holds: the elapsed time recorded is the difference
\* of the two timestamps, divided by 1000.
ElapsedIsAThousandthOfDifference ==
    \A i \in 1..Len(loop.junit) :
        /\ loop.junit[i].elapsed_sec.num = loop.times[i].stop - loop.times[i].start
        /\ loop.junit[i].elapsed_sec.den = 1000

\* The cases whose execution was started, in the order they were started:
\* those whose run was called.
StartedCases == SelectSeq(loop.log, LAMBDA e : e[1] = "run")
\* The report sink holds exactly one record for each of them, in that
\* order, and no other.
OneRecordPerStartedCase ==
    /\ Len(loop.junit) = Len(StartedCases)
    /\ \A k \in 1..Len(loop.junit) :
          loop.junit[k].name = suite.tests[StartedCases[k][2]].name

\* C30: after TestSuite.run has ended, however it ended, the report sink
\* holds exactly one record per case whose execution was started, in
\* execution order, the case that made the run end included, and no record
\* for a case that was never run.
C30_OneRecordPerStartedCase == SuiteEnded => OneRecordPerStartedCase

\* The part of C30 that holds: a run that returns leaves one record per
\* case, in declaration order, a failed case of a fatal suite included.
ReturnedOneRecordPerCase ==
    loop.pc = "returned"
        => /\ OneRecordPerStartedCase
           /\ Len(loop.junit) = Len(suite.tests)

---------------------------------------------------------------------------
(* RefSpec: the reference run of __post_init__, step by step, next to the
   reference process and the pipes between the two *)

\* The bytes a pipe holds before a write to it blocks, and the most a
\* reference process writes to one stream.
PipeCapacity == 2
MaxRefOutput == 3

\* The text of n bytes a reference process writes.
RefText(n) == [i \in 1..n |-> "a"]

\* The cases constructed: not skipped, with a ref that can be started.
RefCases ==
    {d \in DeclaredCases :
        /\ ~d.skipped /\ d.ref = Some("ref") /\ d.binary = "bin"
        /\ d.timeout = None
        /\ d.stdout_mode = STRICT /\ d.stderr_mode = STRICT}

RefInit ==
    /\ cmp = CmpIdle
    /\ decl \in RefCases
    /\ tc = decl
    /\ pc = "declared"
    /\ verbosity = None
    /\ result = None
    /\ proc = NoProcess
    /\ refproc = NoRefProcess
    /\ trace = <<>>
    /\ SuiteIdle
    /\ main = MainIdle

\* __post_init__: the modes are converted and the reference process is
\* spawned, with a pipe as stdin only if stdin is set.  The process will
\* write to_out bytes to stdout and to_err bytes to stderr, in any order,
\* and exit with code once its stdin is not an open pipe; outbuf and
\* errbuf are the bytes in the pipes, got_out and got_err the bytes the
\* constructor has read.
RefPopen ==
    /\ pc = "declared"
    /\ \E n \in 0..MaxRefOutput, m \in 0..MaxRefOutput, code \in ExitCodes :
          refproc' = [state |-> "running",
                      stdin |-> IF tc.stdin.some THEN "open" ELSE "inherited",
                      to_out |-> n, to_err |-> m, outbuf |-> 0, errbuf |-> 0,
                      got_out |-> 0, got_err |-> 0,
                      exitstatus |-> Some(code), returncode |-> None]
    /\ tc' = ConvertModes(tc)
    /\ pc' = IF tc.stdin.some THEN "write stdin" ELSE "read stdout"
    /\ trace' = Append(trace, PopenEvent(tc.ref.val, tc.args, RefStdin(tc)))
    /\ UNCHANGED <<cmp, main, suite, loop, decl, verbosity, result, proc>>

\* __post_init__ with stdin set: process.stdin.write(...) and
\* process.stdin.close().
RefWriteStdin ==
    /\ pc = "write stdin"
    /\ refproc' = [refproc EXCEPT !.stdin = "closed"]
    /\ pc' = "wait"
    /\ UNCHANGED <<cmp, main, suite, loop, decl, tc, verbosity, result, proc, trace>>

\* __post_init__ with stdin set: process.wait() returns once the process
\* has exited.
RefWait ==
    /\ pc = "wait"
    /\ refproc.state = "exited"
    /\ refproc' = [refproc EXCEPT !.returncode = refproc.exitstatus]
    /\ pc' = "read stdout"
    /\ UNCHANGED <<cmp, main, suite, loop, decl, tc, verbosity, result, proc, trace>>

\* __post_init__: a declared stdout is kept, and process.stdout is not
\* read.
RefKeepStdout ==
    /\ pc = "read stdout"
    /\ tc.stdout.some
    /\ pc' = "read stderr"
    /\ UNCHANGED <<cmp, main, suite, loop, decl, tc, verbosity, result, proc,
                   refproc, trace>>

\* __post_init__, process.stdout.read() of an unset stdout: the bytes in
\* the pipe are taken.
RefDrainStdout ==
    /\ pc = "read stdout"
    /\ ~tc.stdout.some
    /\ refproc.outbuf > 0
    /\ refproc' = [refproc EXCEPT !.got_out = @ + refproc.outbuf, !.outbuf = 0]
    /\ UNCHANGED <<cmp, main, suite, loop, decl, tc, pc, verbosity, result, proc, trace>>

\* __post_init__, process.stdout.read() returns at end of file, which is
\* when the process has exited and the pipe is empty.
RefStdoutEOF ==
    /\ pc = "read stdout"
    /\ ~tc.stdout.some
    /\ refproc.outbuf = 0 /\ refproc.state = "exited"
    /\ tc' = [tc EXCEPT !.stdout = Some(RefText(refproc.got_out))]
    /\ pc' = "read stderr"
    /\ UNCHANGED <<cmp, main, suite, loop, decl, verbosity, result, proc,
                   refproc, trace>>

\* The same for stderr.
RefKeepStderr ==
    /\ pc = "read stderr"
    /\ tc.stderr.some
    /\ pc' = "exit code"
    /\ UNCHANGED <<cmp, main, suite, loop, decl, tc, verbosity, result, proc,
                   refproc, trace>>

RefDrainStderr ==
    /\ pc = "read stderr"
    /\ ~tc.stderr.some
    /\ refproc.errbuf > 0
    /\ refproc' = [refproc EXCEPT !.got_err = @ + refproc.errbuf, !.errbuf = 0]
    /\ UNCHANGED <<cmp, main, suite, loop, decl, tc, pc, verbosity, result, proc, trace>>

RefStderrEOF ==
    /\ pc = "read stderr"
    /\ ~tc.stderr.some
    /\ refproc.errbuf = 0 /\ refproc.state = "exited"
    /\ tc' = [tc EXCEPT !.stderr = Some(RefText(refproc.got_err))]
    /\ pc' = "exit code"
    /\ UNCHANGED <<cmp, main, suite, loop, decl, verbosity, result, proc,
                   refproc, trace>>

\* __post_init__: an unset exit_code takes process.returncode, and
\* process.terminate() signals a process that has not exited.
RefTerminate ==
    /\ pc = "exit code"
    /\ tc' = [tc EXCEPT !.exit_code = IF tc.exit_code.some THEN tc.exit_code
                                      ELSE refproc.returncode]
    /\ refproc' = [refproc EXCEPT
                     !.state = IF refproc.state = "exited"
                               THEN "reaped" ELSE "signalled"]
    /\ pc' = "constructed"
    /\ UNCHANGED <<cmp, main, suite, loop, decl, verbosity, result, proc, trace>>

\* The reference process writes a byte to stdout, to stderr: only while
\* the pipe is not full.
ProcessWritesStdout ==
    /\ refproc.state = "running"
    /\ refproc.to_out > 0 /\ refproc.outbuf < PipeCapacity
    /\ refproc' = [refproc EXCEPT !.to_out = @ - 1, !.outbuf = @ + 1]
    /\ UNCHANGED <<cmp, main, suite, loop, decl, tc, pc, verbosity, result, proc, trace>>

ProcessWritesStderr ==
    /\ refproc.state = "running"
    /\ refproc.to_err > 0 /\ refproc.errbuf < PipeCapacity
    /\ refproc' = [refproc EXCEPT !.to_err = @ - 1, !.errbuf = @ + 1]
    /\ UNCHANGED <<cmp, main, suite, loop, decl, tc, pc, verbosity, result, proc, trace>>

\* The reference process exits: it has written all of its output and its
\* stdin, if a pipe, was closed.
ProcessExits ==
    /\ refproc.state = "running"
    /\ refproc.to_out = 0 /\ refproc.to_err = 0
    /\ refproc.stdin # "open"
    /\ refproc' = [refproc EXCEPT !.state = "exited"]
    /\ UNCHANGED <<cmp, main, suite, loop, decl, tc, pc, verbosity, result, proc, trace>>

RefNext ==
    \/ RefPopen
    \/ RefWriteStdin
    \/ RefWait
    \/ RefKeepStdout
    \/ RefDrainStdout
    \/ RefStdoutEOF
    \/ RefKeepStderr
    \/ RefDrainStderr
    \/ RefStderrEOF
    \/ RefTerminate
    \/ ProcessWritesStdout
    \/ ProcessWritesStderr
    \/ ProcessExits

\* The constructor takes every step it can take, and the reference
\* process is scheduled.
RefSpec ==
    /\ RefInit
    /\ [][RefNext]_vars
    /\ WF_vars(RefPopen) /\ WF_vars(RefWriteStdin) /\ WF_vars(RefWait)
    /\ WF_vars(RefKeepStdout) /\ WF_vars(RefDrainStdout) /\ WF_vars(RefStdoutEOF)
    /\ WF_vars(RefKeepStderr) /\ WF_vars(RefDrainStderr) /\ WF_vars(RefStderrEOF)
    /\ WF_vars(RefTerminate)
    /\ WF_vars(ProcessWritesStdout) /\ WF_vars(ProcessWritesStderr)
    /\ WF_vars(ProcessExits)

---------------------------------------------------------------------------
(* Claims about the termination of the reference run, checked under RefSpec *)

\* The bytes the reference process writes to each stream in all.
TotalOut == refproc.to_out + refproc.outbuf + refproc.got_out
TotalErr == refproc.to_err + refproc.errbuf + refproc.got_err

\* C31: constructing a case with ref set terminates whenever the reference
\* process terminates once its stdin is closed and its output is drained:
\* the constructor does not wait forever for a reference process that is
\* blocked writing to a full pipe, for any amount of output and whether or
\* not stdin is set.
C31_ConstructionTerminates == <>(pc = "constructed")

\* The part of C31 that holds: the construction terminates when the whole
\* output of the reference process fits in the pipes.
ConstructionTerminatesWithinCapacity ==
    (/\ pc # "declared"
     /\ TotalOut <= PipeCapacity
     /\ TotalErr <= PipeCapacity) ~> (pc = "constructed")

\* The constructor is blocked for good: in wait() for a process that is
\* blocked writing, or reading one pipe to its end while the process is
\* blocked writing to the other.
ConstructorBlocked ==
    /\ pc \in {"wait", "read stdout", "read stderr"}
    /\ ~ENABLED RefNext

=============================================================================
